---------------------------- MODULE Spec2Model ----------------------------
(***************************************************************************)
(* A model of book_denoiser.py (clean_book and its detectors) and of       *)
(* chunk_text from rag_index_ebooks.py.                                    *)
(*                                                                         *)
(* A text is a sequence of characters; a character is a one-character      *)
(* string, and a character outside ASCII is written by its code point      *)
(* ("U+0142" is the letter l with stroke).  The alphabet is ASCII letters, *)
(* digits and punctuation, the Polish letters, the dashes and bullets the  *)
(* source names, and the white space " ", "\t", "\n".  A document is the   *)
(* list f.readlines() returns: every line ends with "\n", except possibly  *)
(* the last one.  Line indices are zero-based as in the source.            *)
(***************************************************************************)
EXTENDS Integers, Sequences, FiniteSets, TLC

\* ------------------------------------------------------------ characters

Whitespace == {" ", "\t", "\n"}
Digit == {"0", "1", "2", "3", "4", "5", "6", "7", "8", "9"}
AsciiUpper == {"A", "B", "C", "D", "E", "F", "G", "H", "I", "J", "K", "L", "M", "N", "O", "P", "Q", "R", "S", "T", "U", "V", "W", "X", "Y", "Z"}
AsciiLower == {"a", "b", "c", "d", "e", "f", "g", "h", "i", "j", "k", "l", "m", "n", "o", "p", "q", "r", "s", "t", "u", "v", "w", "x", "y", "z"}
PolishUpper == {"U+0104", "U+0106", "U+0118", "U+0141", "U+0143", "U+00D3", "U+015A", "U+0179", "U+017B"}
PolishLower == {"U+0105", "U+0107", "U+0119", "U+0142", "U+0144", "U+00F3", "U+015B", "U+017A", "U+017C"}
UpperSeq == <<"A", "B", "C", "D", "E", "F", "G", "H", "I", "J", "K", "L", "M", "N", "O", "P", "Q", "R", "S", "T", "U", "V", "W", "X", "Y", "Z", "U+0104", "U+0106", "U+0118", "U+0141", "U+0143", "U+00D3", "U+015A", "U+0179", "U+017B">>
LowerSeq == <<"a", "b", "c", "d", "e", "f", "g", "h", "i", "j", "k", "l", "m", "n", "o", "p", "q", "r", "s", "t", "u", "v", "w", "x", "y", "z", "U+0105", "U+0107", "U+0119", "U+0142", "U+0144", "U+00F3", "U+015B", "U+017A", "U+017C">>
Upper == AsciiUpper \cup PolishUpper
Lower == AsciiLower \cup PolishLower

\* str.lower() on one character.
LowerChar(c) ==
    IF c \in Upper
    THEN LowerSeq[CHOOSE k \in 1..Len(UpperSeq) : UpperSeq[k] = c]
    ELSE c

\* ------------------------------------------------------------ str methods

Min(S) == CHOOSE x \in S : \A y \in S : x <= y
Max(S) == CHOOSE x \in S : \A y \in S : x >= y

\* The first and the last position of s whose character is not in S (0 if none).
FirstNotIn(s, S) ==
    IF \A k \in 1..Len(s) : s[k] \in S THEN 0
    ELSE CHOOSE k \in 1..Len(s) : s[k] \notin S /\ \A j \in 1..(k - 1) : s[j] \in S
LastNotIn(s, S) ==
    IF \A k \in 1..Len(s) : s[k] \in S THEN 0
    ELSE CHOOSE k \in 1..Len(s) : s[k] \notin S /\ \A j \in (k + 1)..Len(s) : s[j] \in S

\* str.strip()
Strip(s) ==
    LET first == FirstNotIn(s, Whitespace)
    IN  IF first = 0 THEN <<>> ELSE SubSeq(s, first, LastNotIn(s, Whitespace))

\* str.rstrip("\n")
RStripNL(s) == SubSeq(s, 1, LastNotIn(s, {"\n"}))

\* str.lower()
ToLower(s) == [k \in 1..Len(s) |-> LowerChar(s[k])]

\* p in s
Contains(s, p) ==
    \E k \in 1..(Len(s) - Len(p) + 1) : \A j \in 1..Len(p) : s[k + j - 1] = p[j]

\* str.isupper(): some cased character, and no lower-case one.
IsUpperStr(s) ==
    /\ \E k \in 1..Len(s) : s[k] \in Upper
    /\ \A k \in 1..Len(s) : s[k] \notin Lower

\* str.isdigit()
IsDigitStr(s) == s # <<>> /\ \A k \in 1..Len(s) : s[k] \in Digit

CountIn(s, S) == Cardinality({k \in 1..Len(s) : s[k] \in S})

\* The first position >= p of s whose character is not in S (Len(s)+1 if none):
\* where a greedy run of a regex character class starting at p ends.
SkipWhile(s, p, S) ==
    IF \A j \in p..Len(s) : s[j] \in S THEN Len(s) + 1
    ELSE CHOOSE j \in p..Len(s) : s[j] \notin S /\ \A m \in p..(j - 1) : s[m] \in S

CharAt(s, p) == IF p \in 1..Len(s) THEN s[p] ELSE "EOS"

\* ------------------------------------------------------------ line classifiers

DashChars == {"U+2013", "-", "U+2014"}
SepChars == {"*", "-", "U+2013", "U+2014", "U+2022", "U+00B7", "."}
TripleEq == <<"=", "=", "=">>

\* re.sub(r"[–\-—\s]", "", s)
RemoveDashesAndSpace(s) == SelectSeq(s, LAMBDA c : c \notin (DashChars \cup Whitespace))

is_page_number(line) ==
    LET s == RemoveDashesAndSpace(Strip(line))
    IN  s # <<>> /\ IsDigitStr(s) /\ Len(s) <= 4

is_separator(line) ==
    LET s == Strip(line)
    IN  IF Contains(s, TripleEq)
        THEN FALSE
        ELSE Len(s) >= 3 /\ \A k \in 1..Len(s) : s[k] \in SepChars

is_isbn_line(line) ==
    LET s == ToLower(line)
    IN  IF Contains(s, <<"i", "s", "b", "n">>)
        THEN TRUE
        ELSE CountIn(s, Digit) >= 10 /\ CountIn(s, {"-"}) >= 2

PublisherPatterns ==
    { <<"w", "y", "d", "a", "w", "n", "i", "c", "t", "w", "o">>,
      <<"d", "r", "u", "k", "a", "r", "n", "i", "a">>,
      <<"c", "o", "p", "y", "r", "i", "g", "h", "t">>,
      <<"a", "l", "l", " ", "r", "i", "g", "h", "t", "s", " ", "r", "e", "s", "e", "r", "v", "e", "d">>,
      <<"p", "r", "o", "j", "e", "c", "t", " ", "g", "u", "t", "e", "n", "b", "e", "r", "g">>,
      <<"z", "a", "b", "e", "z", "p", "i", "e", "c", "z", "o", "n", "y", " ", "z", "n", "a", "k", "i", "e", "m", " ", "w", "o", "d", "n", "y", "m">>,
      <<"p", "l", "i", "k", " ", "j", "e", "s", "t", " ", "z", "a", "b", "e", "z", "p", "i", "e", "c", "z", "o", "n", "y">> }

is_publisher_line(line) ==
    LET s == Strip(ToLower(line))
    IN  \E p \in PublisherPatterns : Contains(s, p)

\* ------------------------------------------------------------ frequency analyzer

max_len == 60
min_freq == 5

\* The Counter the loop over the lines builds: its keys are the stripped texts
\* that are non-empty and at most max_len long, each with its number of lines.
CountLines(ls) ==
    LET stripped == [k \in 1..Len(ls) |-> Strip(ls[k])]
        keys == {stripped[k] : k \in {m \in 1..Len(ls) :
                     stripped[m] # <<>> /\ Len(stripped[m]) <= max_len}}
    IN  [s \in keys |-> Cardinality({k \in 1..Len(ls) : stripped[k] = s})]

\* A text must occur more than min_freq times.
detect_repeated_short_lines_Strict(ls) ==
    LET counter == CountLines(ls)
    IN  {s \in DOMAIN counter : counter[s] > min_freq}

detect_repeated_short_lines(ls) ==
    LET counter == CountLines(ls)
    IN  {s \in DOMAIN counter : counter[s] >= min_freq}

\* ------------------------------------------------------------ bibliography locator

BIBLIO_KEYWORDS ==
    { <<"b", "i", "b", "l", "i", "o", "g", "r", "a", "f", "i", "a">>,
      <<"p", "r", "z", "y", "p", "i", "s", "y">>,
      <<"r", "e", "f", "e", "r", "e", "n", "c", "e", "s">>,
      <<"b", "i", "b", "l", "i", "o", "g", "r", "a", "p", "h", "y">>,
      <<"s", "p", "i", "s", " ", "l", "i", "t", "e", "r", "a", "t", "u", "r", "y">>,
      <<"n", "o", "t", "e", "s">> }

header_max_len == 50
\* line_idx > total_lines * 0.8, as the fraction position_num / position_den
position_num == 8
position_den == 10
lookahead == 30
min_biblio_patterns == 3
min_citation_lines == 5
citation_min_len == 20

ChapterPrefix == <<"r", "o", "z", "d", "z", "i", "a", "U+0142">>
HeaderTrailChars == Whitespace \cup {".", ":", ";"}

\* re.fullmatch(r"\d*\.?\s*kw[\s\.:;]*", s[p..]).  No keyword starts with a
\* digit, a dot or white space, so each greedy run is the only way to match.
MatchNumberedKeyword(s, p, kw) ==
    LET d == SkipWhile(s, p, Digit)
        c == IF CharAt(s, d) = "." THEN d + 1 ELSE d
        w == SkipWhile(s, c, Whitespace)
        e == w + Len(kw)
    IN  /\ e - 1 <= Len(s)
        /\ SubSeq(s, w, e - 1) = kw
        /\ \A k \in e..Len(s) : s[k] \in HeaderTrailChars

\* re.fullmatch(rf"(rozdział\s+)?\d*\.?\s*{kw}[\s\.:;]*", s)
MatchHeaderRegex(s, kw) ==
    \/ MatchNumberedKeyword(s, 1, kw)
    \/ /\ Len(s) > Len(ChapterPrefix)
       /\ SubSeq(s, 1, Len(ChapterPrefix)) = ChapterPrefix
       /\ s[Len(ChapterPrefix) + 1] \in Whitespace
       /\ MatchNumberedKeyword(s, SkipWhile(s, Len(ChapterPrefix) + 1, Whitespace), kw)

IsBiblioHeader(line) ==
    LET s == ToLower(Strip(line))
    IN  /\ s # <<>>
        /\ Len(s) <= header_max_len
        /\ \E kw \in BIBLIO_KEYWORDS : s = kw \/ MatchHeaderRegex(s, kw)

\* re.search(r"\(\d{4}\)", nl)
HasParenYear(nl) ==
    \E k \in 1..(Len(nl) - 5) :
        /\ nl[k] = "("
        /\ \A d \in 1..4 : nl[k + d] \in Digit
        /\ nl[k + 5] = ")"

\* re.search(r"\d{4}[,\.]", nl)
HasYearComma(nl) ==
    \E k \in 1..(Len(nl) - 4) :
        /\ \A d \in 0..3 : nl[k + d] \in Digit
        /\ nl[k + 4] \in {",", "."}

\* re.search(r"[A-Z][a-z]+,\s+[A-Z]\.", nl)
HasAuthorInitial(nl) ==
    \E k \in 1..Len(nl) :
        /\ nl[k] \in AsciiUpper
        /\ LET e == SkipWhile(nl, k + 1, AsciiLower)
               w == SkipWhile(nl, e + 1, Whitespace)
           IN  /\ e > k + 1
               /\ CharAt(nl, e) = ","
               /\ w > e + 1
               /\ CharAt(nl, w) \in AsciiUpper
               /\ CharAt(nl, w + 1) = "."

\* re.search(r"[A-ZĄĆĘŁŃÓŚŹŻ][a-ząćęłńóśźż]+ [A-ZĄĆĘŁŃÓŚŹŻ][a-ząćęłńóśźż]+,", nl)
HasSurnameGiven(nl) ==
    \E k \in 1..Len(nl) :
        /\ nl[k] \in Upper
        /\ LET e == SkipWhile(nl, k + 1, Lower)
               f == SkipWhile(nl, e + 2, Lower)
           IN  /\ e > k + 1
               /\ CharAt(nl, e) = " "
               /\ CharAt(nl, e + 1) \in Upper
               /\ f > e + 2
               /\ CharAt(nl, f) = ","

\* The if/elif chain of the four patterns adds one for a line matching any.
MatchesBiblioPattern(nl) ==
    IF HasParenYear(nl) THEN TRUE
    ELSE IF HasYearComma(nl) THEN TRUE
    ELSE IF HasAuthorInitial(nl) THEN TRUE
    ELSE HasSurnameGiven(nl)

CitationMarkers ==
    { <<",", " ">>,
      <<" ", "U+2013", " ">>,
      <<"W", "a", "r", "s", "z", "a", "w", "a">>,
      <<"K", "r", "a", "k", "U+00F3", "w">>,
      <<"L", "o", "n", "d", "o", "n">>,
      <<"N", "e", "w", " ", "Y", "o", "r", "k">>,
      <<"r", "e", "d", ".">>,
      <<"e", "d", ".">>,
      <<"p", "r", "z", "e", "U+0142", ".">> }

IsCitationLike(nl) ==
    /\ Len(nl) > citation_min_len
    /\ nl[1] \in Upper
    /\ \E x \in CitationMarkers : Contains(nl, x)

\* The loop over next_lines[:30] from its k-th line on, with the two counters so
\* far; returns <<biblio_pattern_count, citation_like_lines>>.
RECURSIVE ScanNextLines(_, _, _, _)
ScanNextLines(window, k, biblio_pattern_count, citation_like_lines) ==
    IF k > Len(window)
    THEN <<biblio_pattern_count, citation_like_lines>>
    ELSE LET nl == Strip(window[k])
         IN  IF nl = <<>>
             THEN ScanNextLines(window, k + 1, biblio_pattern_count, citation_like_lines)
             ELSE ScanNextLines(window, k + 1,
                      IF MatchesBiblioPattern(nl)
                      THEN biblio_pattern_count + 1 ELSE biblio_pattern_count,
                      IF IsCitationLike(nl)
                      THEN citation_like_lines + 1 ELSE citation_like_lines)

\* The cutoff is at 90% of the document.
PastPositionCutoff_NinetyPercent(line_idx, total_lines) ==
    position_den * line_idx > (position_num + 1) * total_lines

PastPositionCutoff(line_idx, total_lines) ==
    position_den * line_idx > position_num * total_lines

\* Each count must exceed its threshold.
EnoughSignals_Strict(counts) ==
    counts[1] > min_biblio_patterns \/ counts[2] > min_citation_lines

EnoughSignals(counts) ==
    counts[1] >= min_biblio_patterns \/ counts[2] >= min_citation_lines

is_bibliography_section_start(line, next_lines, line_idx, total_lines) ==
    IF ~IsBiblioHeader(line)
    THEN FALSE
    ELSE IF PastPositionCutoff(line_idx, total_lines)
    THEN TRUE
    ELSE EnoughSignals(
             ScanNextLines(SubSeq(next_lines, 1, Min({lookahead, Len(next_lines)})), 1, 0, 0))

\* ------------------------------------------------------------ table of contents locator

TocHeadings ==
    { <<"s", "p", "i", "s", " ", "t", "r", "e", "U+015B", "c", "i">>,
      <<"s", "p", "i", "s", " ", "t", "r", "e", "U+015B", "c", "i", ":">>,
      <<"s", "p", "i", "s", " ", "r", "z", "e", "c", "z", "y">>,
      <<"s", "p", "i", "s", " ", "r", "z", "e", "c", "z", "y", ":">>,
      <<"t", "a", "b", "l", "e", " ", "o", "f", " ", "c", "o", "n", "t", "e", "n", "t", "s">>,
      <<"c", "o", "n", "t", "e", "n", "t", "s">>,
      <<"c", "o", "n", "t", "e", "n", "t", "s", ":">> }

FrontMatterMarkers ==
    { <<"p", "r", "z", "e", "d", "m", "o", "w", "a">>,
      <<"w", "s", "t", "U+0119", "p">>,
      <<"w", "p", "r", "o", "w", "a", "d", "z", "e", "n", "i", "e">> }

DrmMarker == <<"=", "=", "=", "L", "x", "4", "t">>
toc_window == 500
marker_min_len == 30
toc_blank_run == 5
toc_fallback == 300

\* The line at zero-based index i.
LineAt(ls, i) == ls[i + 1]

IsBlank(line) == Strip(line) = <<>>

IsTocHeading(line) == ToLower(Strip(line)) \in TocHeadings

IsStructuralMarker(line) ==
    LET line_content == Strip(line)
    IN  \/ Contains(line_content, DrmMarker)
        \/ Contains(line_content, TripleEq) /\ Len(line_content) > marker_min_len

IsFrontMatterHeading(line) ==
    LET line_content == Strip(line)
        lower_line == ToLower(line_content)
    IN  /\ IsUpperStr(line_content)
        /\ \E marker \in FrontMatterMarkers : Contains(lower_line, marker)

\* while p < len(lines) and not lines[p].strip(): p += 1
SkipBlankLines(ls, p) ==
    LET J == {j \in p..(Len(ls) - 1) : ~IsBlank(LineAt(ls, j))}
    IN  IF J = {} THEN Max({p, Len(ls)}) ELSE Min(J)

\* The second scan over lo..hi-1: the end index it returns at the first line
\* that is the toc_blank_run-th blank line in a row (empty_count counts the
\* blank lines since lo or since the last non-blank line) or a front-matter
\* heading; -1 when it runs out.
Tier2Scan(ls, lo, hi) ==
    LET blank == [j \in lo..(hi - 1) |-> IsBlank(LineAt(ls, j))]
        run_ends == {j \in (lo + toc_blank_run - 1)..(hi - 1) :
                        \A d \in 0..(toc_blank_run - 1) : blank[j - d]}
        fronts == {j \in lo..(hi - 1) : ~blank[j] /\ IsFrontMatterHeading(LineAt(ls, j))}
        hits == run_ends \cup fronts
    IN  IF hits = {} THEN -1
        ELSE IF Min(hits) \in run_ends THEN Min(hits) - 4
        ELSE Min(hits)

None == <<>>

\* The second scan is tried before the structural marker.
TocRangeFrom_Tier2First(ls, toc_start) ==
    LET n == Len(ls)
        toc_content_start == SkipBlankLines(ls, toc_start + 1)
        hi == Min({toc_content_start + toc_window, n})
        markers == {j \in toc_content_start..(hi - 1) : IsStructuralMarker(LineAt(ls, j))}
        t2 == Tier2Scan(ls, toc_content_start, hi)
    IN  IF t2 # -1
        THEN <<toc_start, t2>>
        ELSE IF markers # {}
        THEN <<toc_start, SkipBlankLines(ls, Min(markers) + 1)>>
        ELSE <<toc_start, Min({toc_start + toc_fallback, n})>>

\* The range found from the heading at toc_start.
TocRangeFrom(ls, toc_start) ==
    LET n == Len(ls)
        toc_content_start == SkipBlankLines(ls, toc_start + 1)
        hi == Min({toc_content_start + toc_window, n})
        markers == {j \in toc_content_start..(hi - 1) : IsStructuralMarker(LineAt(ls, j))}
        t2 == Tier2Scan(ls, toc_content_start, hi)
    IN  IF markers # {}
        THEN <<toc_start, SkipBlankLines(ls, Min(markers) + 1)>>
        ELSE IF t2 # -1
        THEN <<toc_start, t2>>
        ELSE <<toc_start, Min({toc_start + toc_fallback, n})>>

\* The range is taken from the last heading of the document.
detect_toc_section_LastHeading(ls) ==
    LET headings == {i \in 0..(Len(ls) - 1) : IsTocHeading(LineAt(ls, i))}
    IN  IF headings = {} THEN None ELSE TocRangeFrom(ls, Max(headings))

\* None, or <<start_idx, end_idx>>.
detect_toc_section(ls) ==
    LET headings == {i \in 0..(Len(ls) - 1) : IsTocHeading(LineAt(ls, i))}
    IN  IF headings = {} THEN None ELSE TocRangeFrom(ls, Min(headings))

\* ------------------------------------------------------------ documents

Rep(x, n) == [k \in 1..n |-> x]

SeqUpTo(S, n) == UNION {[1..k -> S] : k \in 0..n}

RECURSIVE Flatten(_)
Flatten(segs) == IF segs = <<>> THEN <<>> ELSE Head(segs) \o Flatten(Tail(segs))

L_blank == <<>>
L_ws == <<" ", "\t">>
L_text == <<"H", "e", "l", "l", "o", " ", "w", "o", "r", "l", "d", ".">>
L_padded == <<" ", " ", "H", "e", "l", "l", "o", " ", " ", "w", "o", "r", "l", "d", ".", " ">>
L_page == <<"-", " ", "4", "5", " ", "-">>
L_sep == <<"*", "*", "*">>
L_isbn == <<"I", "S", "B", "N", " ", "8", "3", "-", "0", "1">>
L_digits == <<"0", "-", "3", "0", "6", "-", "4", "0", "6", "1", "5", "-", "2">>
L_pub == <<"(", "c", ")", " ", "C", "o", "p", "y", "r", "i", "g", "h", "t", " ", "X">>
L_notes == <<"N", "o", "t", "e", "s">>
L_bib == <<"R", "o", "z", "d", "z", "i", "a", "U+0142", " ", "3", ".", " ", "B", "i", "b", "l", "i", "o", "g", "r", "a", "f", "i", "a", ":">>
L_year == <<"(", "2", "0", "2", "0", ")">>
L_author == <<"K", "o", "w", "a", "l", "s", "k", "i", ",", " ", "J", ".">>
L_cite == <<"P", "r", "a", "c", "a", " ", "z", "b", "i", "o", "r", "o", "w", "a", " ", "p", "o", "d", " ", "r", "e", "d", ".", " ", "A">>
L_contents == <<"C", "o", "n", "t", "e", "n", "t", "s">>
L_spis == <<"S", "p", "i", "s", " ", "t", "r", "e", "U+015B", "c", "i", ":">>
L_front == <<"W", "P", "R", "O", "W", "A", "D", "Z", "E", "N", "I", "E">>
L_frontlc == <<"W", "p", "r", "o", "w", "a", "d", "z", "e", "n", "i", "e">>
L_drm == <<"=", "=", "=", "L", "x", "4", "t">>
L_eq31 == Rep("=", marker_min_len + 1)
L_eq30 == Rep("=", marker_min_len)
L_60 == Rep("x", max_len)
L_61 == Rep("x", max_len + 1)
Fillers == << <<"a">>, <<"b">>, <<"c">>, <<"d">> >>

\* n filler lines, no text more than ceil(n/4) times.
Cyc(n) == [k \in 1..n |-> Fillers[((k - 1) % Len(Fillers)) + 1]]

MaxShort == 2
MaxBlank == 5
MaxCtx == 1
MaxTail == 2
MaxSegs == 3

FullPool ==
    { L_blank, L_ws, L_text, L_padded, L_page, L_sep, L_isbn, L_digits, L_pub,
      L_notes, L_bib, L_year, L_author, L_cite, L_contents, L_spis, L_front,
      L_frontlc, L_drm, L_eq31, L_eq30 }
ShortPool ==
    { L_blank, L_text, L_padded, L_page, L_sep, L_isbn, L_notes, L_year,
      L_contents, L_front, L_drm }
BlankPool == {L_blank, L_ws, L_text}
DroppedPool == {L_blank, L_page, L_text}
FreqPool == {L_text, L_padded, L_60, L_61, L_page, L_notes}
SignalPool == {L_year, L_author, L_cite, L_text, L_blank}
Headers == {L_notes, L_bib}
TailPool == {L_text, L_blank, L_front}
TocSegs ==
    { <<Fillers[1]>>, Rep(L_blank, toc_blank_run - 1), <<L_drm>>, <<L_front>>,
      <<L_contents>> }

\* Every line of the whole pool as a document of its own.
SingleDocs == {<<x>> : x \in FullPool}

\* Every document of at most MaxShort lines over the short pool.
ShortDocs == SeqUpTo(ShortPool, MaxShort)

\* Empty and white-space lines around kept lines, and empty lines around
\* dropped and kept lines.
BlankDocs == SeqUpTo(BlankPool, MaxBlank) \cup SeqUpTo(DroppedPool, MaxBlank)

\* n times the line x, with the lines of gap between two of them.
Spread(x, n, gap) == Flatten([k \in 1..n |-> IF k < n THEN <<x>> \o gap ELSE <<x>>])

\* A line min_freq - 2 .. min_freq + 1 times, next to each other or one
\* white-space line apart; after them up to MaxCtx lines or min_freq - 1 year lines.
FreqDocs ==
    { pre \o Spread(x, c, gap) \o post :
        pre \in SeqUpTo({L_text}, MaxCtx),
        x \in FreqPool, c \in (min_freq - 2)..(min_freq + 1), gap \in {<<>>, <<L_ws>>},
        post \in SeqUpTo({L_text, L_notes, L_year}, MaxCtx) \cup {Rep(L_year, min_freq - 1)} }

\* A bibliography heading early in the document, followed by up to
\* min_citation_lines lines of one kind.
BibDocs ==
    { pre \o <<h>> \o Rep(s, c) \o post :
        pre \in SeqUpTo({L_text}, MaxCtx), h \in Headers,
        s \in SignalPool, c \in 0..min_citation_lines,
        post \in SeqUpTo({L_text, L_blank, L_year}, MaxCtx) }

\* A bibliography heading around 80% of the document, with or without a table
\* of contents before it.
TailDocs ==
    { pre \o Cyc(c) \o <<h>> \o post :
        pre \in {<<>>, <<L_contents>>}, c \in 8..13, h \in Headers,
        post \in SeqUpTo(TailPool, MaxTail) }

\* A bibliography heading whose signals lie around the end of the lookahead.
WindowDocs ==
    { <<h>> \o Rep(f, c) \o Rep(s, d) :
        h \in {L_notes}, f \in {L_blank, Fillers[1]},
        c \in (lookahead - min_citation_lines - 1)..lookahead,
        s \in {L_year, L_cite}, d \in {min_biblio_patterns, min_citation_lines} }

\* A table of contents heading followed by entries and end markers.
TocDocs ==
    { pre \o <<L_contents>> \o Flatten(segs) \o post :
        pre \in {<<>>, <<L_text>>}, segs \in SeqUpTo(TocSegs, MaxSegs),
        post \in {<<>>, <<L_text>>} }

\* An end marker at the end of the toc_window-line scan.
LongTocDocs ==
    { <<L_contents>> \o Rep(L_blank, b) \o Cyc(c) \o <<m, L_text>> :
        b \in 0..1, c \in (toc_window - 1)..toc_window, m \in {L_drm, L_front} }

Docs ==
    SingleDocs \cup ShortDocs \cup BlankDocs \cup FreqDocs \cup BibDocs \cup TailDocs
        \cup WindowDocs \cup TocDocs \cup LongTocDocs

\* f.readlines(): every line keeps its "\n"; the last line of a file that does
\* not end with a newline has none (and is then not empty).
ReadLines(d, final_newline) ==
    [k \in 1..Len(d) |-> IF k < Len(d) \/ final_newline THEN d[k] \o <<"\n">> ELSE d[k]]

NoFinalNewlineDocs ==
    {d \in SingleDocs \cup SeqUpTo(BlankPool, MaxBlank - 2) : d # <<>> /\ d[Len(d)] # <<>>}

Files ==
    {ReadLines(d, TRUE) : d \in Docs} \cup {ReadLines(d, FALSE) : d \in NoFinalNewlineDocs}

\* ------------------------------------------------------------ clean_book

VARIABLES
    lines,            \* the document, as read
    pc,               \* where clean_book is
    toc_range,        \* None or <<start, end>>
    repeated_short,   \* the RepeatedLineSet
    cleaned_lines,    \* the output list
    in_bibliography,  \* the latch
    blank_streak,
    i,                \* the index of the next line of the main loop
    output,           \* what is written to output_path, line by line
    kept,             \* history: the input index each entry of cleaned_lines came from
    fate,             \* history: the rule that decided each line processed so far
    text,             \* chunk_text: its argument
    chunk_size,
    overlap,
    start,
    chunks,           \* the list chunk_text builds
    cpc,              \* where chunk_text is
    windows           \* history: the <<start, end>> of every iteration so far

cleanvars ==
    <<lines, pc, toc_range, repeated_short, cleaned_lines, in_bibliography,
      blank_streak, i, output, kept, fate>>

chunkvars == <<text, chunk_size, overlap, start, chunks, cpc, windows>>

vars == <<cleanvars, chunkvars>>

total_lines == Len(lines)

\* toc_range and toc_range[0] <= i < toc_range[1]
InTocRange(idx) ==
    toc_range # None /\ toc_range[1] <= idx /\ idx < toc_range[2]

Raw(idx) == RStripNL(LineAt(lines, idx))

next_lines_stop == 31

\* [lines[j].rstrip("\n") for j in range(i+1, min(i+31, len(lines)))]
NextLines(idx) ==
    LET stop == Min({idx + next_lines_stop, Len(lines)})
    IN  [k \in 1..(stop - (idx + 1)) |-> Raw(idx + k)]

IsBibliographyStart(idx) ==
    is_bibliography_section_start(Raw(idx), NextLines(idx), idx, total_lines)

\* The latch is tested after the blank-line branch.
LineRule_LatchAfterBlank(idx) ==
    IF InTocRange(idx) THEN "toc"
    ELSE IF Strip(Raw(idx)) = <<>>
         THEN IF blank_streak + 1 > 1 THEN "blank_dropped" ELSE "blank"
    ELSE IF in_bibliography THEN "latch"
    ELSE IF Strip(Raw(idx)) \in repeated_short THEN "repeated"
    ELSE IF IsBibliographyStart(idx) THEN "biblio"
    ELSE IF is_page_number(Raw(idx)) THEN "page_number"
    ELSE IF is_separator(Raw(idx)) THEN "separator"
    ELSE IF is_isbn_line(Raw(idx)) \/ is_publisher_line(Raw(idx)) THEN "isbn_publisher"
    ELSE "text"

\* The bibliography locator is asked before the RepeatedLineSet.
LineRule_LocatorFirst(idx) ==
    IF InTocRange(idx) THEN "toc"
    ELSE IF in_bibliography THEN "latch"
    ELSE IF IsBibliographyStart(idx) THEN "biblio"
    ELSE IF Strip(Raw(idx)) \in repeated_short THEN "repeated"
    ELSE IF is_page_number(Raw(idx)) THEN "page_number"
    ELSE IF is_separator(Raw(idx)) THEN "separator"
    ELSE IF is_isbn_line(Raw(idx)) \/ is_publisher_line(Raw(idx)) THEN "isbn_publisher"
    ELSE IF Strip(Raw(idx)) = <<>>
         THEN IF blank_streak + 1 > 1 THEN "blank_dropped" ELSE "blank"
    ELSE "text"

\* The branch of the loop body the line at idx takes, in the order of the ifs.
LineRule(idx) ==
    IF InTocRange(idx) THEN "toc"
    ELSE IF in_bibliography THEN "latch"
    ELSE IF Strip(Raw(idx)) \in repeated_short THEN "repeated"
    ELSE IF IsBibliographyStart(idx) THEN "biblio"
    ELSE IF is_page_number(Raw(idx)) THEN "page_number"
    ELSE IF is_separator(Raw(idx)) THEN "separator"
    ELSE IF is_isbn_line(Raw(idx)) \/ is_publisher_line(Raw(idx)) THEN "isbn_publisher"
    ELSE IF Strip(Raw(idx)) = <<>>
         THEN IF blank_streak + 1 > 1 THEN "blank_dropped" ELSE "blank"
    ELSE "text"

\* blank_streak is reset by every line that is not blank, dropped or not.
BlankStreakAfter_ResetOnDrop(rule) ==
    IF rule \in {"blank", "blank_dropped"} THEN blank_streak + 1 ELSE 0

\* blank_streak after a line taking branch rule.
BlankStreakAfter(rule) ==
    IF rule \in {"blank", "blank_dropped"} THEN blank_streak + 1
    ELSE IF rule = "text" THEN 0
    ELSE blank_streak

\* The line is appended stripped.
Appended_Stripped(idx, rule) == Strip(Raw(idx))

\* What cleaned_lines.append receives for the line at idx taking branch rule.
Appended(idx, rule) == IF rule = "blank" THEN <<>> ELSE Raw(idx)

\* The two while loops popping blank entries off both ends.
TrimBlankEnds(ls) ==
    LET N == {k \in 1..Len(ls) : Strip(ls[k]) # <<>>}
    IN  IF N = {} THEN <<>> ELSE SubSeq(ls, Min(N), Max(N))

\* f.write(line + "\n")
Written(ls) == [k \in 1..Len(ls) |-> ls[k] \o <<"\n">>]

CleanStart(files) ==
    /\ lines \in files
    /\ pc = "detect_toc"
    /\ toc_range = None
    /\ repeated_short = {}
    /\ cleaned_lines = <<>>
    /\ in_bibliography = FALSE
    /\ blank_streak = 0
    /\ i = 0
    /\ output = <<>>
    /\ kept = <<>>
    /\ fate = <<>>

ChunkIdle ==
    /\ text = <<>>
    /\ chunk_size = 1
    /\ overlap = 0
    /\ start = 0
    /\ chunks = <<>>
    /\ cpc = "idle"
    /\ windows = <<>>

Init == CleanStart(Files) /\ ChunkIdle

DetectToc ==
    /\ pc = "detect_toc"
    /\ toc_range' = detect_toc_section(lines)
    /\ pc' = "detect_repeated"
    /\ UNCHANGED <<lines, repeated_short, cleaned_lines, in_bibliography,
                   blank_streak, i, output, kept, fate, chunkvars>>

DetectRepeated ==
    /\ pc = "detect_repeated"
    /\ repeated_short' = detect_repeated_short_lines(lines)
    /\ cleaned_lines' = <<>>
    /\ in_bibliography' = FALSE
    /\ blank_streak' = 0
    /\ pc' = "loop"
    /\ UNCHANGED <<lines, toc_range, i, output, kept, fate, chunkvars>>

\* One iteration of "for i, line in enumerate(lines)".
LoopStep ==
    /\ pc = "loop"
    /\ i < Len(lines)
    /\ LET rule == LineRule(i)
       IN  /\ in_bibliography' = IF rule = "biblio" THEN TRUE ELSE in_bibliography
           /\ blank_streak' = BlankStreakAfter(rule)
           /\ cleaned_lines' =
                  IF rule \in {"blank", "text"}
                  THEN Append(cleaned_lines, Appended(i, rule))
                  ELSE cleaned_lines
           /\ kept' = IF rule \in {"blank", "text"} THEN Append(kept, i) ELSE kept
           /\ fate' = Append(fate, rule)
    /\ i' = i + 1
    /\ UNCHANGED <<lines, pc, toc_range, repeated_short, output, chunkvars>>

\* The loop is over: strip the blank entries at both ends.
Trim ==
    /\ pc = "loop"
    /\ i = Len(lines)
    /\ LET N == {k \in 1..Len(cleaned_lines) : Strip(cleaned_lines[k]) # <<>>}
       IN  /\ cleaned_lines' = TrimBlankEnds(cleaned_lines)
           /\ kept' = IF N = {} THEN <<>> ELSE SubSeq(kept, Min(N), Max(N))
    /\ pc' = "write"
    /\ UNCHANGED <<lines, toc_range, repeated_short, in_bibliography,
                   blank_streak, i, output, fate, chunkvars>>

Write ==
    /\ pc = "write"
    /\ output' = Written(cleaned_lines)
    /\ pc' = "done"
    /\ UNCHANGED <<lines, toc_range, repeated_short, cleaned_lines,
                   in_bibliography, blank_streak, i, kept, fate, chunkvars>>

Next == DetectToc \/ DetectRepeated \/ LoopStep \/ Trim \/ Write

Spec == Init /\ [][Next]_vars

\* ------------------------------------------------------------ chunk_text

MaxText == 5
MaxChunk == 3
MaxIter == 6

Texts == SeqUpTo({"a", " "}, MaxText)

\* text[lo:hi] for 0 <= lo <= hi <= len(text)
Slice(s, lo, hi) == SubSeq(s, lo + 1, hi)

WindowEnd(from) == Min({from + chunk_size, Len(text)})

\* The next window starts where this one ends.
NextStart_NoOverlap(end) == end

\* start = end - overlap
NextStart(end) == end - overlap

CleanIdle ==
    /\ lines = <<>>
    /\ pc = "idle"
    /\ toc_range = None
    /\ repeated_short = {}
    /\ cleaned_lines = <<>>
    /\ in_bibliography = FALSE
    /\ blank_streak = 0
    /\ i = 0
    /\ output = <<>>
    /\ kept = <<>>
    /\ fate = <<>>

\* The arguments: any text, any chunk_size >= 1 and any overlap from 0 to
\* chunk_size (the command line parser takes any two integers).
ChunkInit ==
    /\ CleanIdle
    /\ text \in Texts
    /\ chunk_size \in 1..MaxChunk
    /\ overlap \in 0..chunk_size
    /\ start = 0
    /\ chunks = <<>>
    /\ cpc = "loop"
    /\ windows = <<>>

\* One iteration of "while start < n".  An overlap equal to chunk_size leaves
\* start where it was: the iterations are then cut off after MaxIter.
ChunkStep ==
    /\ cpc = "loop"
    /\ start < Len(text)
    /\ Len(windows) < MaxIter
    /\ LET end == WindowEnd(start)
           chunk == Strip(Slice(text, start, end))
       IN  /\ chunks' = IF chunk # <<>> THEN Append(chunks, chunk) ELSE chunks
           /\ windows' = Append(windows, <<start, end>>)
           /\ IF end = Len(text)
              THEN cpc' = "done" /\ start' = start
              ELSE cpc' = "loop" /\ start' = NextStart(end)
    /\ UNCHANGED <<text, chunk_size, overlap, cleanvars>>

\* The loop condition fails: return chunks.
ChunkReturn ==
    /\ cpc = "loop"
    /\ start >= Len(text)
    /\ cpc' = "done"
    /\ UNCHANGED <<text, chunk_size, overlap, start, chunks, windows, cleanvars>>

ChunkNext == ChunkStep \/ ChunkReturn

SpecChunk == ChunkInit /\ [][ChunkNext]_vars /\ WF_vars(ChunkNext)

\* ------------------------------------------------------------ properties

\* The k-th line of the written file, without its terminator.
OutputLine(k) == RStripNL(output[k])

\* The input indices of the lines in cleaned_lines.
KeptSet == {kept[m] : m \in 1..Len(kept)}

\* The indices of the lines that are a table of contents heading.
HeadingIndices == {h \in 0..(Len(lines) - 1) : IsTocHeading(LineAt(lines, h))}

\* The rule that decided the line at index idx (a line already processed).
FateOf(idx) == fate[idx + 1]

\* C1: the written line sequence never holds two consecutive empty lines, and
\* when it is non-empty neither its first nor its last line is empty.
C1_BlankNormalization ==
    pc = "done" =>
        /\ \A k \in 1..(Len(output) - 1) :
               ~(OutputLine(k) = <<>> /\ OutputLine(k + 1) = <<>>)
        /\ output # <<>> => OutputLine(1) # <<>> /\ OutputLine(Len(output)) # <<>>

\* A written output with an empty line in it, from an input where a dropped page
\* number sits between an empty line and a white-space-only line, with kept
\* text before and after.
C1_Witness ==
    /\ pc = "done"
    /\ \E k \in 1..Len(output) : OutputLine(k) = <<>>
    /\ \E idx \in 2..(Len(lines) - 2) :
           /\ FateOf(idx - 1) = "blank"
           /\ FateOf(idx) = "page_number"
           /\ FateOf(idx + 1) = "blank_dropped"
           /\ Raw(idx + 1) # <<>>
           /\ \E a \in 0..(idx - 2) : FateOf(a) = "text"
           /\ \E b \in (idx + 2)..(Len(lines) - 1) : FateOf(b) = "text"

\* C2: the latch is false when the main pass starts, only ever goes from false
\* to true, the line that sets it is not appended, and once it is set the
\* output never grows again.
C2_LatchMonotone ==
    [][ /\ pc = "detect_repeated" => ~in_bibliography'
        /\ in_bibliography =>
               in_bibliography' /\ Len(cleaned_lines') <= Len(cleaned_lines)
        /\ ~in_bibliography /\ in_bibliography' =>
               pc = "loop" /\ cleaned_lines' = cleaned_lines ]_vars

\* The latch was set by one line, and a blank line and a line of plain text
\* after it were both held back by it; something was written before it.
C2_Witness ==
    /\ pc = "done"
    /\ in_bibliography
    /\ output # <<>>
    /\ \E a, b \in 0..(Len(lines) - 1) :
           /\ FateOf(a) = "latch" /\ IsBlank(Raw(a))
           /\ FateOf(b) = "latch" /\ Raw(b) = L_text

\* C3: detect_toc_section returns None or one range <<s, e>> that starts at the
\* first heading line of the document; no line with an index in s..e-1 is in
\* the output when the main pass ends, and a heading line after the range is
\* no part of any range.
C3_TocExclusive ==
    pc = "loop" /\ i = Len(lines) =>
        /\ toc_range = None <=> HeadingIndices = {}
        /\ toc_range # None =>
               /\ Len(toc_range) = 2
               /\ toc_range[1] = Min(HeadingIndices)
               /\ toc_range[1] < toc_range[2] /\ toc_range[2] <= Len(lines)
               /\ \A x \in KeptSet : ~(toc_range[1] <= x /\ x < toc_range[2])
               /\ \A h \in HeadingIndices :
                      h >= toc_range[2] => FateOf(h) # "toc"

\* A range of two lines or more, and a second heading line after it that is
\* written out as a line of text.
C3_Witness ==
    /\ pc = "loop" /\ i = Len(lines)
    /\ toc_range # None
    /\ toc_range[2] - toc_range[1] >= 2
    /\ \E h \in HeadingIndices : h >= toc_range[2] /\ h \in KeptSet

\* The stripped text of the line at index idx.
StrippedAt(idx) == Strip(LineAt(lines, idx))

\* The indices of the lines whose stripped text is t.
Occurrences(t) == {idx \in 0..(Len(lines) - 1) : StrippedAt(idx) = t}

\* The stripped texts of the document that are non-empty and at most 60 long.
ShortTexts ==
    {StrippedAt(idx) : idx \in {a \in 0..(Len(lines) - 1) :
         StrippedAt(a) # <<>> /\ Len(StrippedAt(a)) <= 60}}

\* The latch was set by the line at idx or by a line before it.
LatchSetBy(idx) == \E a \in 0..idx : FateOf(a) = "biblio"

\* A rule other than the RepeatedLineSet drops the line at idx.
DroppedByOtherRule(idx) ==
    \/ InTocRange(idx)
    \/ LatchSetBy(idx)
    \/ is_page_number(Raw(idx))
    \/ is_separator(Raw(idx))
    \/ is_isbn_line(Raw(idx))
    \/ is_publisher_line(Raw(idx))

\* C4 as stated: a short line occurring exactly 5 times is removed at every
\* occurrence, and one occurring exactly 4 times is in the output at every
\* occurrence.
C4_AsStated ==
    pc = "done" =>
        \A t \in ShortTexts :
            /\ Cardinality(Occurrences(t)) = 5 => Occurrences(t) \cap KeptSet = {}
            /\ Cardinality(Occurrences(t)) = 4 => Occurrences(t) \subseteq KeptSet

\* C4, amended: a short line occurring exactly 5 times is removed at every
\* occurrence; one occurring exactly 4 times is not in the RepeatedLineSet and
\* is in the output at every occurrence that no other rule drops (the TOC
\* range, the latch, the page-number, separator, ISBN and publisher tests).
C4_FrequencyThreshold ==
    pc = "done" =>
        \A t \in ShortTexts :
            /\ Cardinality(Occurrences(t)) = 5 => Occurrences(t) \cap KeptSet = {}
            /\ Cardinality(Occurrences(t)) = 4 =>
                   /\ t \notin repeated_short
                   /\ \A idx \in Occurrences(t) :
                          ~DroppedByOtherRule(idx) => idx \in KeptSet

\* A document with a 60-character line 5 times, all removed, and another line
\* 4 times, all written.
C4_Witness ==
    /\ pc = "done"
    /\ \E t5, t4 \in ShortTexts :
           /\ Len(t5) = 60
           /\ Cardinality(Occurrences(t5)) = 5
           /\ Occurrences(t5) \cap KeptSet = {}
           /\ Cardinality(Occurrences(t4)) = 4
           /\ Occurrences(t4) \subseteq KeptSet

\* The line at idx has the shape of a bibliography heading.
HeaderShaped(idx) == IsBiblioHeader(Raw(idx))

\* idx > 0.8 * (number of lines)
PastEightyPercent(idx) == 10 * idx > 8 * Len(lines)

\* C5 as stated: a heading-shaped line past 80% of the document truncates the
\* output before it, whatever follows.
C5_AsStated ==
    pc = "done" =>
        \A idx \in 0..(Len(lines) - 1) :
            HeaderShaped(idx) /\ PastEightyPercent(idx) =>
                \A x \in KeptSet : x < idx

\* C5, amended: a heading-shaped line past 80% of the document that lies
\* outside the TOC range and whose trimmed text is not in the RepeatedLineSet
\* truncates the output before it, whatever follows.
C5_PositionalShortcut ==
    pc = "done" =>
        \A idx \in 0..(Len(lines) - 1) :
            /\ HeaderShaped(idx)
            /\ PastEightyPercent(idx)
            /\ ~InTocRange(idx)
            /\ StrippedAt(idx) \notin repeated_short
            => \A x \in KeptSet : x < idx

\* A heading past 80%, followed only by plain text, set the latch; something
\* was written before it.
C5_Witness ==
    /\ pc = "done"
    /\ output # <<>>
    /\ \E idx \in 0..(Len(lines) - 2) :
           /\ HeaderShaped(idx)
           /\ PastEightyPercent(idx)
           /\ FateOf(idx) = "biblio"
           /\ \A b \in (idx + 1)..(Len(lines) - 1) : Raw(b) = L_text

\* The lookahead of the line at idx: the next 30 lines, fewer at the end.
LookaheadIndices(idx) == (idx + 1)..Min({idx + 30, Len(lines) - 1})

PatternLines(idx) ==
    {j \in LookaheadIndices(idx) :
        StrippedAt(j) # <<>> /\ MatchesBiblioPattern(StrippedAt(j))}

CitationLines(idx) ==
    {j \in LookaheadIndices(idx) :
        StrippedAt(j) # <<>> /\ IsCitationLike(StrippedAt(j))}

SignalsFound(idx) ==
    Cardinality(PatternLines(idx)) >= 3 \/ Cardinality(CitationLines(idx)) >= 5

\* C6: for a heading-shaped line at or before 80% of the document the locator
\* answers true exactly when the non-blank lines among the next 30 hold at
\* least 3 pattern lines or at least 5 citation-like lines; when they do not
\* and the locator is asked, the heading is written, and it does not make the
\* latch hold back the next line.
C6_PatternVerification ==
    pc = "done" =>
        \A idx \in 0..(Len(lines) - 1) :
            HeaderShaped(idx) /\ ~PastEightyPercent(idx) =>
                /\ IsBibliographyStart(idx) <=> SignalsFound(idx)
                /\ ~SignalsFound(idx) /\ FateOf(idx) \notin {"toc", "latch", "repeated"} =>
                       /\ FateOf(idx) = "text"
                       /\ idx \in KeptSet
                       /\ idx + 1 < Len(lines) => FateOf(idx + 1) # "latch"

\* A heading before 80% whose lookahead holds blank lines and exactly 3 pattern
\* lines, the last of them 30 lines after the heading; it set the latch.
C6_Witness ==
    /\ pc = "done"
    /\ \E idx \in 0..(Len(lines) - 1) :
           /\ HeaderShaped(idx)
           /\ ~PastEightyPercent(idx)
           /\ FateOf(idx) = "biblio"
           /\ Cardinality(PatternLines(idx)) = 3
           /\ idx + 30 \in PatternLines(idx)
           /\ \E j \in LookaheadIndices(idx) : StrippedAt(j) = <<>>

\* The first index >= p of a line that is not blank; the number of lines if none.
FirstNonBlankFrom(p) ==
    IF \A j \in p..(Len(lines) - 1) : IsBlank(LineAt(lines, j))
    THEN Len(lines)
    ELSE CHOOSE j \in p..(Len(lines) - 1) :
             /\ ~IsBlank(LineAt(lines, j))
             /\ \A m \in p..(j - 1) : IsBlank(LineAt(lines, m))

\* The structural marker lines among the 500 lines from the first entry after
\* the first heading.
MarkersInScan ==
    LET first == FirstNonBlankFrom(Min(HeadingIndices) + 1)
    IN  {j \in first..(Min({first + 500, Len(lines)}) - 1) :
            IsStructuralMarker(LineAt(lines, j))}

\* A line before j, from the first entry after the first heading on, that ends
\* the second scan: a front-matter heading.
FrontMatterBefore(j) ==
    \E m \in FirstNonBlankFrom(Min(HeadingIndices) + 1)..(j - 1) :
        IsFrontMatterHeading(LineAt(lines, m))

\* C7: when the scan from the first entry after the heading finds a structural
\* marker, at j the first of them, the range is <<toc_start, k>> with k the
\* first non-blank line after j (or the end), whatever the second scan would
\* find before j; the output holds no line from toc_start to k - 1.
C7_StructuralMarkerEnd ==
    pc = "loop" /\ i = Len(lines) /\ HeadingIndices # {} =>
        (MarkersInScan # {} =>
            LET k == FirstNonBlankFrom(Min(MarkersInScan) + 1)
            IN  /\ toc_range = <<Min(HeadingIndices), k>>
                /\ \A x \in KeptSet : x >= Min(HeadingIndices) => x >= k)

\* A marker found after a front-matter heading that the second scan would have
\* stopped at; the line after the range is written.
C7_Witness ==
    /\ pc = "loop" /\ i = Len(lines)
    /\ HeadingIndices # {}
    /\ MarkersInScan # {}
    /\ FrontMatterBefore(Min(MarkersInScan))
    /\ toc_range[2] < Len(lines)
    /\ toc_range[2] \in KeptSet

\* C8: the rule recorded for the line processed last is the first one that
\* applies, in the order TOC range, latch, RepeatedLineSet, bibliography
\* locator, classifiers, blank normalization; the locator sets the latch only
\* for a line outside the TOC range that is not in the RepeatedLineSet.
C8_RuleOrder ==
    Len(fate) > 0 =>
        LET idx == Len(fate) - 1
            r == FateOf(idx)
            toc == InTocRange(idx)
            latched == \E a \in 0..(idx - 1) : FateOf(a) = "biblio"
            repeated == StrippedAt(idx) \in repeated_short
            noise == \/ is_page_number(Raw(idx))
                     \/ is_separator(Raw(idx))
                     \/ is_isbn_line(Raw(idx))
                     \/ is_publisher_line(Raw(idx))
        IN  /\ r = "toc" <=> toc
            /\ r = "latch" <=> ~toc /\ latched
            /\ r = "repeated" <=> ~toc /\ ~latched /\ repeated
            /\ r = "biblio" => ~toc /\ ~latched /\ ~repeated
            /\ r \in {"page_number", "separator", "isbn_publisher"} =>
                   ~toc /\ ~latched /\ ~repeated /\ noise
            /\ r \in {"blank", "blank_dropped", "text"} =>
                   ~toc /\ ~latched /\ ~repeated /\ ~noise
            /\ in_bibliography <=> \E a \in 0..idx : FateOf(a) = "biblio"

\* A heading line that the locator would accept was dropped as a repeated
\* short line, and the latch was never set.
C8_Witness ==
    /\ pc = "done"
    /\ ~in_bibliography
    /\ \E idx \in 0..(Len(lines) - 1) :
           FateOf(idx) = "repeated" /\ IsBibliographyStart(idx)

\* C9: cleaned_lines is, entry by entry, a line of the input processed so far,
\* in input order and each line at most once: a non-empty entry is its line
\* without the trailing newline, an empty entry comes from a blank line.
C9_VerbatimSubsequence ==
    /\ Len(kept) = Len(cleaned_lines)
    /\ \A m \in 1..Len(kept) :
           /\ kept[m] < i
           /\ m > 1 => kept[m - 1] < kept[m]
           /\ IF cleaned_lines[m] = <<>>
              THEN IsBlank(LineAt(lines, kept[m]))
              ELSE LineAt(lines, kept[m]) \in
                       {cleaned_lines[m], cleaned_lines[m] \o <<"\n">>}

\* A line with leading, inner and trailing spaces was written as it is, and a
\* white-space-only line as an empty line.
C9_Witness ==
    /\ pc = "done"
    /\ \E m \in 1..Len(cleaned_lines) : cleaned_lines[m] = L_padded
    /\ \E m \in 1..Len(cleaned_lines) :
           cleaned_lines[m] = <<>> /\ Raw(kept[m]) # <<>>

\* The windows of chunk_text so far: each starts after the one before it and
\* shares exactly overlap positions with it.
WindowsChained ==
    \A m \in 1..(Len(windows) - 1) :
        /\ windows[m + 1][1] > windows[m][1]
        /\ windows[m + 1][2] > windows[m][2]
        /\ windows[m][2] - windows[m + 1][1] = overlap

\* The windows of a finished call end at the end of the text and cover it.
WindowsCover ==
    /\ Len(text) > 0 => windows # <<>> /\ windows[Len(windows)][2] = Len(text)
    /\ \A p \in 0..(Len(text) - 1) :
           \E m \in 1..Len(windows) : windows[m][1] <= p /\ p < windows[m][2]

\* C10: with 0 <= overlap < chunk_size, chunk_text terminates, start grows on
\* every iteration, consecutive windows share exactly overlap positions, the
\* last window ends at the end of the text and the windows cover the text.
C10_ChunkWindows ==
    /\ [](overlap < chunk_size => WindowsChained)
    /\ [](overlap < chunk_size /\ cpc = "done" => WindowsCover)
    /\ [][overlap < chunk_size /\ cpc = "loop" /\ cpc' = "loop" => start' > start]_vars
    /\ <>(overlap >= chunk_size \/ cpc = "done")

\* A finished call with a positive overlap, two windows or more, the last one
\* shorter than chunk_size.
C10_Witness ==
    /\ cpc = "done"
    /\ overlap >= 1 /\ overlap < chunk_size
    /\ Len(windows) >= 2
    /\ windows[Len(windows)][2] - windows[Len(windows)][1] < chunk_size

=============================================================================
